---- MODULE Spec2Model ----
(***************************************************************************)
(* Model of the tag-browsing dialog, src/src/components/TagsDialog.tsx.    *)
(*                                                                         *)
(* Strings are sequences of one-character strings, so that toLowerCase,    *)
(* trim, includes and replace are computed character by character.         *)
(*                                                                         *)
(* The component's five useState cells are the variables tags,             *)
(* filteredTags, searchTerm, isOpen and isLoading.  An event handler and   *)
(* the render it causes are one step.  The two useEffect callbacks are     *)
(* passive effects: a render whose dependency changed leaves the effect    *)
(* pending, and the pending effects of a render run, in declaration        *)
(* order, before the next event is handled.                                *)
(***************************************************************************)
EXTENDS Integers, Sequences, FiniteSets, TLC

VARIABLES
    tags,                \* useState<TagItem[]>([])          line 21
    filteredTags,        \* useState<TagItem[]>([])          line 22
    searchTerm,          \* useState("")                     line 23
    isOpen,              \* useState(false)                  line 24
    isLoading,           \* useState(false)                  line 25
    pendingLoadEffect,   \* the effect of lines 28-50 is scheduled
    pendingFilterEffect, \* the effect of lines 53-62 is scheduled
    inflight,            \* fetches issued at line 32 and not yet settled
    nextId,              \* number of the next fetch to be issued
    curLoad,             \* fetch issued by the present open period, 0 if none
    calls,               \* invocations of the onTagSelect prop, in order
    clicked,             \* the tag of the latest handleTagClick
    lastLoad,            \* the latest settled fetch and how loadTags ended
    lastEvent,           \* the step taken last
    theme                \* the token set of index.css in force on the page

vars == <<tags, filteredTags, searchTerm, isOpen, isLoading,
          pendingLoadEffect, pendingFilterEffect, inflight, nextId, curLoad,
          calls, clicked, lastLoad, lastEvent, theme>>

----------------------------------------------------------------------------
(* Bounds *)

MaxCatalogLen == 2
MaxQueryLen   == 2
MaxLoads      == 2
MaxCalls      == 2

----------------------------------------------------------------------------
(* Strings *)

Origin ==
    <<"h","t","t","p","s",":","/","/","b","e","s","t","s","i","m","i","l",
      "a","r",".","c","o","m">>

Lower(c) ==
    CASE c = "A" -> "a"
      [] c = "B" -> "b"
      [] OTHER   -> c

toLowerCase(s) == [i \in 1..Len(s) |-> Lower(s[i])]

IsSpace(c) == c \in {" "}

trim(s) ==
    LET keep == {i \in 1..Len(s) : ~IsSpace(s[i])}
        lo   == CHOOSE i \in keep : \A j \in keep : i <= j
        hi   == CHOOSE i \in keep : \A j \in keep : j <= i
    IN  IF keep = {} THEN <<>> ELSE SubSeq(s, lo, hi)

\* position (0-based) of the first occurrence of pat in s, -1 if none
indexOf(s, pat) ==
    LET at == {i \in 0..(Len(s) - Len(pat)) : SubSeq(s, i + 1, i + Len(pat)) = pat}
    IN  IF at = {} THEN -1 ELSE CHOOSE i \in at : \A j \in at : i <= j

includes(s, pat) == indexOf(s, pat) # -1

\* String.prototype.replace with a string pattern: the first occurrence only
replace(s, pat, rep) ==
    LET i == indexOf(s, pat)
    IN  IF i = -1 THEN s
        ELSE SubSeq(s, 1, i) \o rep \o SubSeq(s, i + Len(pat) + 1, Len(s))

----------------------------------------------------------------------------
(* Inputs *)

TagItem(n, u) == [name |-> n, url |-> u]

NoTag == TagItem(<<>>, <<>>)

TagPool ==
    { TagItem(<<"A","b">>, Origin \o <<"/","a">>),
      TagItem(<<"b"," ","A">>, <<"x",":">> \o Origin \o <<"/","b">>) }

SeqsUpTo(S, n) == UNION {[1..k -> S] : k \in 0..n}

\* what /tags.json may decode to
Payloads == SeqsUpTo(TagPool, MaxCatalogLen)

QueryChars == {"A", " "}

\* what may be typed into the search input
Queries == SeqsUpTo(QueryChars, MaxQueryLen)

NoLoad == [id |-> 0, outcome |-> "none", data |-> <<>>, logged |-> FALSE,
           escaped |-> FALSE]

----------------------------------------------------------------------------
(* Theme tokens of src/src/index.css: name :> components of the value *)

\* :root, lines 11-50
RootTokens ==
    ("background" :> <<"0", "0%", "0%">>)
    @@ ("foreground" :> <<"0", "0%", "100%">>)
    @@ ("card" :> <<"0", "0%", "6%">>)
    @@ ("card-foreground" :> <<"0", "0%", "95%">>)
    @@ ("popover" :> <<"0", "0%", "6%">>)
    @@ ("popover-foreground" :> <<"0", "0%", "95%">>)
    @@ ("primary" :> <<"217", "91%", "60%">>)
    @@ ("primary-foreground" :> <<"0", "0%", "100%">>)
    @@ ("secondary" :> <<"0", "0%", "12%">>)
    @@ ("secondary-foreground" :> <<"0", "0%", "85%">>)
    @@ ("muted" :> <<"0", "0%", "12%">>)
    @@ ("muted-foreground" :> <<"0", "0%", "60%">>)
    @@ ("accent" :> <<"0", "0%", "12%">>)
    @@ ("accent-foreground" :> <<"0", "0%", "85%">>)
    @@ ("destructive" :> <<"0", "84.2%", "60.2%">>)
    @@ ("destructive-foreground" :> <<"0", "0%", "98%">>)
    @@ ("border" :> <<"0", "0%", "20%">>)
    @@ ("input" :> <<"0", "0%", "20%">>)
    @@ ("ring" :> <<"217", "91%", "60%">>)
    @@ ("radius" :> <<"0.75rem">>)
    @@ ("sidebar-background" :> <<"0", "0%", "6%">>)
    @@ ("sidebar-foreground" :> <<"0", "0%", "85%">>)
    @@ ("sidebar-primary" :> <<"217", "91%", "60%">>)
    @@ ("sidebar-primary-foreground" :> <<"0", "0%", "100%">>)
    @@ ("sidebar-accent" :> <<"0", "0%", "12%">>)
    @@ ("sidebar-accent-foreground" :> <<"0", "0%", "85%">>)
    @@ ("sidebar-border" :> <<"0", "0%", "15%">>)
    @@ ("sidebar-ring" :> <<"217", "91%", "60%">>)

\* .dark given the values of :root
DarkTokens_sameAsRoot ==
    [t \in DOMAIN RootTokens \ {"radius"} |-> RootTokens[t]]

\* .dark, lines 52-88
DarkTokens ==
    ("background" :> <<"0", "0%", "0%">>)
    @@ ("foreground" :> <<"0", "0%", "100%">>)
    @@ ("card" :> <<"0", "0%", "6%">>)
    @@ ("card-foreground" :> <<"0", "0%", "95%">>)
    @@ ("popover" :> <<"0", "0%", "6%">>)
    @@ ("popover-foreground" :> <<"0", "0%", "95%">>)
    @@ ("primary" :> <<"217", "91%", "60%">>)
    @@ ("primary-foreground" :> <<"0", "0%", "100%">>)
    @@ ("secondary" :> <<"0", "0%", "12%">>)
    @@ ("secondary-foreground" :> <<"0", "0%", "85%">>)
    @@ ("muted" :> <<"0", "0%", "12%">>)
    @@ ("muted-foreground" :> <<"0", "0%", "60%">>)
    @@ ("accent" :> <<"0", "0%", "12%">>)
    @@ ("accent-foreground" :> <<"0", "0%", "85%">>)
    @@ ("destructive" :> <<"0", "62.8%", "30.6%">>)
    @@ ("destructive-foreground" :> <<"0", "0%", "98%">>)
    @@ ("border" :> <<"0", "0%", "20%">>)
    @@ ("input" :> <<"0", "0%", "20%">>)
    @@ ("ring" :> <<"217", "91%", "60%">>)
    @@ ("sidebar-background" :> <<"0", "0%", "6%">>)
    @@ ("sidebar-foreground" :> <<"0", "0%", "85%">>)
    @@ ("sidebar-primary" :> <<"217", "91%", "60%">>)
    @@ ("sidebar-primary-foreground" :> <<"0", "0%", "100%">>)
    @@ ("sidebar-accent" :> <<"0", "0%", "12%">>)
    @@ ("sidebar-accent-foreground" :> <<"0", "0%", "85%">>)
    @@ ("sidebar-border" :> <<"0", "0%", "15%">>)
    @@ ("sidebar-ring" :> <<"217", "91%", "60%">>)

Themes == {"root", "dark"}

\* the custom properties in force: .dark overrides :root where it defines
\* a token and inherits the rest
ActiveTokens(th) == IF th = "dark" THEN DarkTokens @@ RootTokens ELSE RootTokens

----------------------------------------------------------------------------
(* Pure parts of the component *)

\* FilterTags matching against the trimmed query
FilterTags_trimmedQuery(c, q) ==
    IF trim(q) = <<>>
    THEN c
    ELSE SelectSeq(c, LAMBDA tag : includes(toLowerCase(tag.name), toLowerCase(trim(q))))

\* lines 54-61: the value the filter effect passes to setFilteredTags
FilterTags(c, q) ==
    IF trim(q) = <<>>
    THEN c
    ELSE SelectSeq(c, LAMBDA tag : includes(toLowerCase(tag.name), toLowerCase(q)))

\* line 66
tagPath(url) == replace(url, Origin, <<>>)

----------------------------------------------------------------------------
(* Initial state: the component has rendered once, its effects have not run *)

Mounted ==
    /\ tags = <<>>
    /\ filteredTags = <<>>
    /\ searchTerm = <<>>
    /\ isOpen = FALSE
    /\ isLoading = FALSE
    /\ pendingLoadEffect = TRUE
    /\ pendingFilterEffect = TRUE
    /\ inflight = {}
    /\ nextId = 1
    /\ curLoad = 0
    /\ calls = <<>>
    /\ clicked = NoTag
    /\ lastLoad = NoLoad
    /\ lastEvent = "mount"

\* the page's root element does not carry the class dark
Init == Mounted /\ theme = "root"

\* the page's root element carries the class dark or does not
ThemeInit == Mounted /\ theme \in Themes

\* no passive effect is waiting to run
Idle == ~pendingLoadEffect /\ ~pendingFilterEffect

----------------------------------------------------------------------------
(* Effects *)


\* LoadEffect without the test of line 47
LoadEffect_ignoresIsOpen ==
    /\ pendingLoadEffect
    /\ pendingLoadEffect' = FALSE
    /\ isLoading' = TRUE
    /\ inflight' = inflight \cup {nextId}
    /\ curLoad' = IF isOpen THEN nextId ELSE 0
    /\ nextId' = nextId + 1
    /\ lastEvent' = "loadEffect"
    /\ theme' = theme
    /\ UNCHANGED <<tags, filteredTags, searchTerm, isOpen, pendingFilterEffect,
                   calls, clicked, lastLoad>>

\* lines 28-50: useEffect(..., [isOpen]); loadTags up to its first await
LoadEffect ==
    /\ pendingLoadEffect
    /\ pendingLoadEffect' = FALSE
    /\ IF isOpen
       THEN /\ isLoading' = TRUE
            /\ inflight' = inflight \cup {nextId}
            /\ curLoad' = nextId
            /\ nextId' = nextId + 1
       ELSE UNCHANGED <<isLoading, inflight, curLoad, nextId>>
    /\ lastEvent' = "loadEffect"
    /\ theme' = theme
    /\ UNCHANGED <<tags, filteredTags, searchTerm, isOpen, pendingFilterEffect,
                   calls, clicked, lastLoad>>

\* lines 53-62: useEffect(..., [searchTerm, tags])
FilterEffect ==
    /\ pendingFilterEffect
    /\ ~pendingLoadEffect
    /\ pendingFilterEffect' = FALSE
    /\ filteredTags' = FilterTags(tags, searchTerm)
    /\ lastEvent' = "filterEffect"
    /\ theme' = theme
    /\ UNCHANGED <<tags, searchTerm, isOpen, isLoading, pendingLoadEffect,
                   inflight, nextId, curLoad, calls, clicked, lastLoad>>

----------------------------------------------------------------------------
(* Settling of a fetch: loadTags from line 32 to its end *)

\* ResolveOk dropping the response of any fetch but the one issued last
ResolveOk_latestOnly(id, data) ==
    /\ Idle
    /\ id \in inflight
    /\ inflight' = inflight \ {id}
    /\ tags' = IF id = nextId - 1 THEN data ELSE tags
    /\ filteredTags' = IF id = nextId - 1 THEN data ELSE filteredTags
    /\ isLoading' = FALSE
    /\ pendingFilterEffect' = (id = nextId - 1)
    /\ lastLoad' = [id |-> id, outcome |-> "ok", data |-> data,
                    logged |-> FALSE, escaped |-> FALSE]
    /\ lastEvent' = "resolve"
    /\ theme' = theme
    /\ UNCHANGED <<searchTerm, isOpen, pendingLoadEffect, nextId, curLoad,
                   calls, clicked>>


\* ResolveOk adding the payload to the catalog instead of replacing it
ResolveOk_appends(id, data) ==
    /\ Idle
    /\ id \in inflight
    /\ inflight' = inflight \ {id}
    /\ tags' = tags \o data
    /\ filteredTags' = tags \o data
    /\ isLoading' = FALSE
    /\ pendingFilterEffect' = TRUE
    /\ lastLoad' = [id |-> id, outcome |-> "ok", data |-> data,
                    logged |-> FALSE, escaped |-> FALSE]
    /\ lastEvent' = "resolve"
    /\ theme' = theme
    /\ UNCHANGED <<searchTerm, isOpen, pendingLoadEffect, nextId, curLoad,
                   calls, clicked>>


\* ResolveOk discarding the response when the dialog has been closed
ResolveOk_ignoredWhenClosed(id, data) ==
    /\ Idle
    /\ id \in inflight
    /\ inflight' = inflight \ {id}
    /\ tags' = IF isOpen THEN data ELSE tags
    /\ filteredTags' = IF isOpen THEN data ELSE filteredTags
    /\ isLoading' = FALSE
    /\ pendingFilterEffect' = isOpen
    /\ lastLoad' = [id |-> id, outcome |-> "ok", data |-> data,
                    logged |-> FALSE, escaped |-> FALSE]
    /\ lastEvent' = "resolve"
    /\ theme' = theme
    /\ UNCHANGED <<searchTerm, isOpen, pendingLoadEffect, nextId, curLoad,
                   calls, clicked>>

\* lines 33-36 and 42-44: response.ok and response.json() resolves
ResolveOk(id, data) ==
    /\ Idle
    /\ id \in inflight
    /\ inflight' = inflight \ {id}
    /\ tags' = data
    /\ filteredTags' = data
    /\ isLoading' = FALSE
    /\ pendingFilterEffect' = TRUE
    /\ lastLoad' = [id |-> id, outcome |-> "ok", data |-> data,
                    logged |-> FALSE, escaped |-> FALSE]
    /\ lastEvent' = "resolve"
    /\ theme' = theme
    /\ UNCHANGED <<searchTerm, isOpen, pendingLoadEffect, nextId, curLoad,
                   calls, clicked>>

\* ResolveStatus emptying the catalog
ResolveStatus_clearsTags(id) ==
    /\ Idle
    /\ id \in inflight
    /\ inflight' = inflight \ {id}
    /\ isLoading' = FALSE
    /\ tags' = <<>>
    /\ lastLoad' = [id |-> id, outcome |-> "status", data |-> <<>>,
                    logged |-> TRUE, escaped |-> FALSE]
    /\ lastEvent' = "resolve"
    /\ theme' = theme
    /\ UNCHANGED <<filteredTags, searchTerm, isOpen, pendingLoadEffect,
                   pendingFilterEffect, nextId, curLoad, calls, clicked>>

\* ResolveStatus without the finally block of lines 42-44
ResolveStatus_noFinally(id) ==
    /\ Idle
    /\ id \in inflight
    /\ inflight' = inflight \ {id}
    /\ lastLoad' = [id |-> id, outcome |-> "status", data |-> <<>>,
                    logged |-> TRUE, escaped |-> FALSE]
    /\ lastEvent' = "resolve"
    /\ theme' = theme
    /\ UNCHANGED <<tags, filteredTags, searchTerm, isOpen, isLoading,
                   pendingLoadEffect, pendingFilterEffect, nextId, curLoad,
                   calls, clicked>>

\* lines 37-39 and 42-44: response.ok is false
ResolveStatus(id) ==
    /\ Idle
    /\ id \in inflight
    /\ inflight' = inflight \ {id}
    /\ isLoading' = FALSE
    /\ lastLoad' = [id |-> id, outcome |-> "status", data |-> <<>>,
                    logged |-> TRUE, escaped |-> FALSE]
    /\ lastEvent' = "resolve"
    /\ theme' = theme
    /\ UNCHANGED <<tags, filteredTags, searchTerm, isOpen, pendingLoadEffect,
                   pendingFilterEffect, nextId, curLoad, calls, clicked>>

\* ResolveError without the catch and finally blocks of lines 40-44
ResolveError_uncaught(id, kind) ==
    /\ Idle
    /\ id \in inflight
    /\ inflight' = inflight \ {id}
    /\ lastLoad' = [id |-> id, outcome |-> kind, data |-> <<>>,
                    logged |-> FALSE, escaped |-> TRUE]
    /\ lastEvent' = "resolve"
    /\ theme' = theme
    /\ UNCHANGED <<tags, filteredTags, searchTerm, isOpen, isLoading,
                   pendingLoadEffect, pendingFilterEffect, nextId, curLoad,
                   calls, clicked>>

\* lines 40-44: fetch rejects ("transport") or response.json() rejects ("decode")
ResolveError(id, kind) ==
    /\ Idle
    /\ id \in inflight
    /\ inflight' = inflight \ {id}
    /\ isLoading' = FALSE
    /\ lastLoad' = [id |-> id, outcome |-> kind, data |-> <<>>,
                    logged |-> TRUE, escaped |-> FALSE]
    /\ lastEvent' = "resolve"
    /\ theme' = theme
    /\ UNCHANGED <<tags, filteredTags, searchTerm, isOpen, pendingLoadEffect,
                   pendingFilterEffect, nextId, curLoad, calls, clicked>>

----------------------------------------------------------------------------
(* User events *)

\* line 73, onOpenChange(true): the trigger button is pressed
Open ==
    /\ Idle
    /\ ~isOpen
    /\ nextId <= MaxLoads
    /\ isOpen' = TRUE
    /\ pendingLoadEffect' = TRUE
    /\ lastEvent' = "open"
    /\ theme' = theme
    /\ UNCHANGED <<tags, filteredTags, searchTerm, isLoading,
                   pendingFilterEffect, inflight, nextId, curLoad, calls,
                   clicked, lastLoad>>


\* Dismiss clearing the query as handleTagClick does
Dismiss_resetsQuery ==
    /\ Idle
    /\ isOpen
    /\ isOpen' = FALSE
    /\ searchTerm' = <<>>
    /\ pendingLoadEffect' = TRUE
    /\ pendingFilterEffect' = (searchTerm' # searchTerm)
    /\ curLoad' = 0
    /\ lastEvent' = "dismiss"
    /\ theme' = theme
    /\ UNCHANGED <<tags, filteredTags, isLoading, inflight, nextId, calls,
                   clicked, lastLoad>>

\* line 73, onOpenChange(false): escape key, overlay or close button
Dismiss ==
    /\ Idle
    /\ isOpen
    /\ isOpen' = FALSE
    /\ pendingLoadEffect' = TRUE
    /\ curLoad' = 0
    /\ lastEvent' = "dismiss"
    /\ theme' = theme
    /\ UNCHANGED <<tags, filteredTags, searchTerm, isLoading,
                   pendingFilterEffect, inflight, nextId, calls, clicked,
                   lastLoad>>


\* EditQuery ending the loading display as well
EditQuery_clearsLoading(q) ==
    /\ Idle
    /\ isOpen
    /\ q # searchTerm
    /\ searchTerm' = q
    /\ isLoading' = FALSE
    /\ pendingFilterEffect' = TRUE
    /\ lastEvent' = "edit"
    /\ theme' = theme
    /\ UNCHANGED <<tags, filteredTags, isOpen, pendingLoadEffect,
                   inflight, nextId, curLoad, calls, clicked, lastLoad>>

\* EditQuery with searchTerm missing from the dependencies of line 62
EditQuery_noEffect(q) ==
    /\ Idle
    /\ isOpen
    /\ q # searchTerm
    /\ searchTerm' = q
    /\ lastEvent' = "edit"
    /\ theme' = theme
    /\ UNCHANGED <<tags, filteredTags, isOpen, isLoading, pendingLoadEffect,
                   pendingFilterEffect, inflight, nextId, curLoad, calls,
                   clicked, lastLoad>>

\* line 102: onChange of the search input
EditQuery(q) ==
    /\ Idle
    /\ isOpen
    /\ q # searchTerm
    /\ searchTerm' = q
    /\ pendingFilterEffect' = TRUE
    /\ lastEvent' = "edit"
    /\ theme' = theme
    /\ UNCHANGED <<tags, filteredTags, isOpen, isLoading, pendingLoadEffect,
                   inflight, nextId, curLoad, calls, clicked, lastLoad>>

\* handleTagClick without line 69
handleTagClick_keepsQuery(tag) ==
    /\ calls' = Append(calls, <<tagPath(tag.url), tag.name>>)
    /\ isOpen' = FALSE
    /\ searchTerm' = searchTerm

\* handleTagClick without line 67
handleTagClick_noCallback(tag) ==
    /\ calls' = calls
    /\ isOpen' = FALSE
    /\ searchTerm' = <<>>

\* lines 64-70
handleTagClick(tag) ==
    /\ calls' = Append(calls, <<tagPath(tag.url), tag.name>>)
    /\ isOpen' = FALSE
    /\ searchTerm' = <<>>


\* Click with the grid rendered during loading as well (no test at line 110)
Click_whileLoading(i) ==
    /\ Idle
    /\ isOpen
    /\ i \in 1..Len(filteredTags)
    /\ Len(calls) < MaxCalls
    /\ handleTagClick(filteredTags[i])
    /\ clicked' = filteredTags[i]
    /\ pendingLoadEffect' = (isOpen' # isOpen)
    /\ pendingFilterEffect' = (searchTerm' # searchTerm)
    /\ curLoad' = IF isOpen' THEN curLoad ELSE 0
    /\ lastEvent' = "click"
    /\ theme' = theme
    /\ UNCHANGED <<tags, filteredTags, isLoading, inflight, nextId, lastLoad>>

\* lines 110-127: a badge of the rendered grid is clicked
Click(i) ==
    /\ Idle
    /\ isOpen
    /\ ~isLoading
    /\ i \in 1..Len(filteredTags)
    /\ Len(calls) < MaxCalls
    /\ handleTagClick(filteredTags[i])
    /\ clicked' = filteredTags[i]
    /\ pendingLoadEffect' = (isOpen' # isOpen)
    /\ pendingFilterEffect' = (searchTerm' # searchTerm)
    /\ curLoad' = IF isOpen' THEN curLoad ELSE 0
    /\ lastEvent' = "click"
    /\ theme' = theme
    /\ UNCHANGED <<tags, filteredTags, isLoading, inflight, nextId, lastLoad>>

----------------------------------------------------------------------------

Next ==
    \/ LoadEffect
    \/ FilterEffect
    \/ Open
    \/ Dismiss
    \/ \E q \in Queries : EditQuery(q)
    \/ \E i \in 1..MaxCatalogLen : Click(i)
    \/ \E id \in 1..MaxLoads, data \in Payloads : ResolveOk(id, data)
    \/ \E id \in 1..MaxLoads : ResolveStatus(id)
    \/ \E id \in 1..MaxLoads, kind \in {"transport", "decode"} : ResolveError(id, kind)

Spec == Init /\ [][Next]_vars

\* the component on a page of either theme
ThemeSpec == ThemeInit /\ [][Next]_vars

----------------------------------------------------------------------------
(* Properties *)

Range(f) == {f[i] : i \in DOMAIN f}

HasPrefix(s, pre) == Len(pre) <= Len(s) /\ SubSeq(s, 1, Len(pre)) = pre

\* q is empty or consists of white space only
IsBlank(q) == \A i \in 1..Len(q) : IsSpace(q[i])

\* n, read without regard to case, has q as a contiguous part
NameContains(n, q) ==
    \E k \in 0..(Len(n) - Len(q)) : \A j \in 1..Len(q) : Lower(n[k + j]) = Lower(q[j])

\* the positions of c that q keeps
Kept(c, q) ==
    IF IsBlank(q) THEN 1..Len(c) ELSE {i \in 1..Len(c) : NameContains(c[i].name, q)}

\* r lists the elements of c at the positions K, in increasing position
IsSelection(r, c, K) ==
    /\ Len(r) = Cardinality(K)
    /\ \A j \in 1..Len(r) :
          \E i \in K : Cardinality({k \in K : k < i}) = j - 1 /\ r[j] = c[i]

\* C1: after a click on a tag the dialog is closed and the query is the
\* empty string, whatever the query was before the click.
C1_SelectionClosesAndClears ==
    lastEvent = "click" => (~isOpen /\ searchTerm = <<>>)

\* a click was made while a non-empty query was typed
C1_Witness ==
    lastEvent = "click" /\ pendingFilterEffect /\ ~isOpen /\ searchTerm = <<>>

\* C2: a click on a tag appends exactly one invocation (path of the tag's
\* url, the tag's name) to the callback's invocations, the tag being one of
\* the rendered ones; every other step leaves the invocations as they are.
C2_CallbackOncePerClick ==
    [][ IF lastEvent' = "click"
        THEN /\ clicked' \in Range(filteredTags)
             /\ calls' = Append(calls, <<tagPath(clicked'.url), clicked'.name>>)
        ELSE calls' = calls ]_vars

\* two clicks have been made and a failed load was seen in between or before
C2_Witness ==
    /\ lastEvent = "click"
    /\ Len(calls) = 2
    /\ calls[2] = <<tagPath(clicked.url), clicked.name>>
    /\ lastLoad.outcome \in {"status", "transport", "decode"}

\* C3: what the filter effect stores is the catalog restricted, in catalog
\* order, to every position when the query is blank and otherwise to the
\* positions whose lowercased name contains the lowercased untrimmed query;
\* it is empty for the empty catalog.
C3_FilterResult ==
    lastEvent = "filterEffect" =>
        /\ IsSelection(filteredTags, tags, Kept(tags, searchTerm))
        /\ (tags = <<>> => filteredTags = <<>>)
        /\ (IsBlank(searchTerm) => filteredTags = tags)

\* a non-blank query with a leading space kept some tags and dropped others
C3_Witness ==
    /\ lastEvent = "filterEffect"
    /\ ~IsBlank(searchTerm)
    /\ IsSpace(searchTerm[1])
    /\ Len(filteredTags) > 0
    /\ Len(filteredTags) < Len(tags)

\* C4: the path handed to the callback is the url without the origin when the
\* url starts with the origin, and the url itself when it does not.
C4_PrefixOnly ==
    lastEvent = "click" =>
        LET u == clicked.url
            p == calls[Len(calls)][1]
        IN  IF HasPrefix(u, Origin)
            THEN p = SubSeq(u, Len(Origin) + 1, Len(u))
            ELSE p = u

C6_VisibleSetAlwaysFiltered ==
    filteredTags = FilterTags(tags, searchTerm)

\* C7: a fetch leaves the set of fetches in flight only by settling, a fetch
\* is issued on opening whatever else is in flight, and the catalog is the
\* payload of the fetch that settled last when that one succeeded.
C7_LastResolvedWins ==
    [][ /\ (lastEvent' = "resolve" =>
               /\ lastLoad'.id \in inflight
               /\ inflight' = inflight \ {lastLoad'.id})
        /\ (lastEvent' = "loadEffect" /\ isOpen =>
               /\ nextId \notin inflight
               /\ inflight' = inflight \cup {nextId})
        /\ (lastEvent' = "loadEffect" /\ ~isOpen => inflight' = inflight)
        /\ (lastEvent' \notin {"resolve", "loadEffect"} => inflight' = inflight)
        /\ (lastLoad'.outcome = "ok" => tags' = lastLoad'.data) ]_vars

\* the fetch issued first settled after the ones issued later, and its
\* payload is the catalog
C7_Witness ==
    /\ nextId >= 3
    /\ inflight = {}
    /\ lastEvent = "resolve"
    /\ lastLoad.id = 1
    /\ lastLoad.outcome = "ok"
    /\ tags = lastLoad.data
    /\ tags # <<>>

\* C8: isLoading is true only if some fetch has been issued and has not settled.
C8_LoadingOnlyInFlight ==
    isLoading => (inflight # {} /\ nextId > 1)

\* the skeleton is shown while two fetches are in flight
C8_Witness ==
    isLoading /\ Cardinality(inflight) = 2

\* C9: while the dialog stays open and the fetch issued by this opening has
\* not settled, isLoading is true.
C9_HungLoadKeepsLoading ==
    (isOpen /\ curLoad # 0 /\ curLoad \in inflight) => isLoading

\* C10: every settling of a fetch leaves isLoading false and lets nothing
\* escape loadTags; a non-success status met with an empty catalog leaves
\* the catalog empty.
C10_ResolveClearsLoading ==
    [][ lastEvent' = "resolve" =>
           /\ ~isLoading'
           /\ ~lastLoad'.escaped
           /\ (lastLoad'.outcome = "status" /\ tags = <<>> => tags' = <<>>) ]_vars

\* a decode error settled a fetch while the catalog was empty
C10_Witness ==
    /\ lastEvent = "resolve"
    /\ lastLoad.outcome = "decode"
    /\ ~isLoading
    /\ tags = <<>>

\* C11: the step that follows an opening is the load effect, which issues
\* exactly one fetch and sets isLoading; a fetch is issued by no other
\* step, so not after a failed load, a closing, a query edit or a click.
C11_OneLoadPerOpen ==
    [][ /\ (lastEvent = "open" =>
               /\ lastEvent' = "loadEffect"
               /\ nextId' = nextId + 1
               /\ inflight' = inflight \cup {nextId}
               /\ nextId \notin inflight
               /\ isLoading')
        /\ ((nextId' # nextId \/ ~(inflight' \subseteq inflight)) =>
               (lastEvent = "open" /\ lastEvent' = "loadEffect")) ]_vars

\* the second opening has issued the second fetch after the first one failed
C11_Witness ==
    /\ lastEvent = "loadEffect"
    /\ isOpen
    /\ isLoading
    /\ curLoad = 2
    /\ inflight = {2}
    /\ lastLoad.id = 1
    /\ lastLoad.outcome = "status"

\* C12: tags changes only in a step that settles a fetch successfully, and
\* then becomes that fetch's payload; every other step leaves it unchanged.
C12_CatalogOnlyReplacedByLoader ==
    [][ /\ (lastEvent' = "resolve" /\ lastLoad'.outcome = "ok" =>
               tags' = lastLoad'.data)
        /\ (~(lastEvent' = "resolve" /\ lastLoad'.outcome = "ok") =>
               tags' = tags) ]_vars

\* the payload of the second fetch is the catalog, and a click made
\* afterwards left it in place
C12_Witness ==
    /\ lastEvent = "click"
    /\ lastLoad.id = 2
    /\ lastLoad.outcome = "ok"
    /\ tags = lastLoad.data
    /\ Len(tags) = 1

\* C13 as stated: after a closing, by click or by dismissal, the query is
\* empty and isLoading is false.
C13_ClosingResets ==
    lastEvent \in {"click", "dismiss"} => (searchTerm = <<>> /\ ~isLoading)

\* C13 amended: a click leaves the query empty and isLoading false; a
\* dismissal closes the dialog and leaves both as they were; the filter
\* effect changes neither.
C13_OnlySelectionResets ==
    [][ /\ (lastEvent' = "click" => (~isOpen' /\ searchTerm' = <<>> /\ ~isLoading'))
        /\ (lastEvent' = "dismiss" =>
               (~isOpen' /\ searchTerm' = searchTerm /\ isLoading' = isLoading))
        /\ (lastEvent' = "filterEffect" =>
               (searchTerm' = searchTerm /\ isLoading' = isLoading)) ]_vars

\* the dialog was dismissed with a query typed and a fetch in flight
C13_Witness ==
    /\ lastEvent = "dismiss"
    /\ ~isOpen
    /\ searchTerm # <<>>
    /\ isLoading

ThemeCommon == DOMAIN RootTokens \cap DOMAIN DarkTokens

\* C14 as stated: under the alternate set every common token but
\* destructive has its default value, and destructive differs from its
\* default value in the lightness component only.
C14_DestructiveLightnessOnly ==
    theme = "dark" =>
        /\ \A t \in ThemeCommon \ {"destructive"} :
              ActiveTokens(theme)[t] = RootTokens[t]
        /\ ActiveTokens(theme)["destructive"][1] = RootTokens["destructive"][1]
        /\ ActiveTokens(theme)["destructive"][2] = RootTokens["destructive"][2]
        /\ ActiveTokens(theme)["destructive"][3] # RootTokens["destructive"][3]

\* C14 amended: under the alternate set every common token but destructive
\* has its default value, and destructive has the default hue and differs
\* from the default in both the saturation and the lightness component.
C14_DestructiveSaturationAndLightness ==
    theme = "dark" =>
        /\ \A t \in ThemeCommon \ {"destructive"} :
              ActiveTokens(theme)[t] = RootTokens[t]
        /\ ActiveTokens(theme)["destructive"][1] = RootTokens["destructive"][1]
        /\ ActiveTokens(theme)["destructive"][2] # RootTokens["destructive"][2]
        /\ ActiveTokens(theme)["destructive"][3] # RootTokens["destructive"][3]

\* the alternate set is in force and both sets define destructive
C14_Witness ==
    /\ theme = "dark"
    /\ "destructive" \in ThemeCommon
    /\ ActiveTokens(theme)["destructive"] = DarkTokens["destructive"]
    /\ ActiveTokens(theme)["destructive"] # RootTokens["destructive"]

\* C15: a dismissal leaves the fetches in flight as they are, and a fetch
\* that settles successfully replaces tags and filteredTags by its payload
\* and sets isLoading false whether the dialog is open or closed.
C15_LateLoadStillApplied ==
    [][ /\ (lastEvent' = "dismiss" => inflight' = inflight)
        /\ (lastEvent' = "resolve" /\ lastLoad'.outcome = "ok" =>
               /\ tags' = lastLoad'.data
               /\ filteredTags' = lastLoad'.data
               /\ ~isLoading'
               /\ isOpen' = isOpen) ]_vars

\* a fetch settled with a non-empty payload while the dialog was closed by
\* dismissal (no click has been made)
C15_Witness ==
    /\ lastEvent = "resolve"
    /\ lastLoad.outcome = "ok"
    /\ ~isOpen
    /\ calls = <<>>
    /\ tags # <<>>
    /\ filteredTags = tags
    /\ ~isLoading

\* C16: a query edit changes searchTerm and leaves isLoading, tags and
\* isOpen unchanged, and so does the filter effect, which leaves searchTerm
\* too; isLoading becomes true only in the load effect issuing a fetch and
\* becomes false only in a step settling a fetch.
C16_EditTouchesOnlyQuery ==
    [][ /\ (lastEvent' = "edit" =>
               /\ searchTerm' # searchTerm
               /\ UNCHANGED <<isLoading, tags, isOpen, inflight>>)
        /\ (lastEvent' = "filterEffect" =>
               UNCHANGED <<isLoading, tags, isOpen, searchTerm, inflight>>)
        /\ (~isLoading /\ isLoading' =>
               (lastEvent' = "loadEffect" /\ nextId' = nextId + 1))
        /\ (isLoading /\ ~isLoading' => lastEvent' = "resolve") ]_vars

\* the query was edited while the skeleton was shown
C16_Witness ==
    /\ lastEvent = "edit"
    /\ searchTerm # <<>>
    /\ isLoading
    /\ isOpen

\* C17: a step that invokes the callback starts in a state with the dialog
\* open, isLoading false and a non-empty catalog, and the tag it passes is
\* an element of filteredTags and of tags.
C17_SelectionOnlyFromRenderedGrid ==
    [][ (calls' # calls \/ lastEvent' = "click") =>
           /\ isOpen
           /\ ~isLoading
           /\ tags # <<>>
           /\ clicked' \in Range(filteredTags)
           /\ clicked' \in Range(tags)
           /\ calls'[Len(calls')][2] = clicked'.name ]_vars

\* a tag was clicked in a grid that showed a part of the catalog, while a
\* fetch was still in flight
C17_Witness ==
    /\ lastEvent = "click"
    /\ clicked \in Range(filteredTags)
    /\ Len(filteredTags) < Len(tags)
    /\ inflight # {}

\* C18: a successful settling stores the whole payload in filteredTags and
\* leaves the filter effect pending; whenever the filter effect is not
\* pending, filteredTags is the filter of tags by searchTerm.
C18_QuiescentFilter ==
    [][ /\ (lastEvent' = "resolve" /\ lastLoad'.outcome = "ok" =>
               (filteredTags' = lastLoad'.data /\ pendingFilterEffect'))
        /\ (~pendingFilterEffect' =>
               filteredTags' = FilterTags(tags', searchTerm')) ]_vars

\* a fetch has just settled under a non-blank query that does not keep the
\* whole payload, which filteredTags holds until the effect runs
C18_Witness ==
    /\ lastEvent = "resolve"
    /\ lastLoad.outcome = "ok"
    /\ ~IsBlank(searchTerm)
    /\ pendingFilterEffect
    /\ filteredTags = tags
    /\ FilterTags(tags, searchTerm) # tags

====
